---- MODULE Spec2Model ----
(***************************************************************************)
(* Model of src/bin/shard.rs: a multi-port UDP echo service whose main     *)
(* loop activates XDP port sharding once, after the first request on the   *)
(* primary port plus a grace period, and reports per-queue traffic deltas. *)
(*                                                                         *)
(* Threads of control:                                                     *)
(*   listeners  serve_udp, one tokio task per configured port              *)
(*   gate       dump_ctrs, a dedicated std thread                          *)
(*   timer      the tokio task spawned at shard.rs:91                      *)
(*   controller the body of main from shard.rs:98 on                       *)
(*   handler    the ctrlc handler installed at shard.rs:103                *)
(* Time is a discrete clock of seconds; a sleep of d seconds started at    *)
(* time t lets its thread continue at any time >= t + d.                   *)
(***************************************************************************)
EXTENDS Integers, Sequences, FiniteSets, TLC

----------------------------------------------------------------------------
(* Bounds of the model *)

\* ports are numbered 1..MaxPorts and at most MaxPorts of them are configured
MaxPorts == 2
\* a listener counts at most MaxCount requests
MaxCount == 1
\* the clock stops at MaxTime seconds
MaxTime == 6
\* rx queues 0..MaxRxq in a stats snapshot
MaxRxq == 0
\* a kernel traffic counter counts at most MaxStat packets
MaxStat == 1
\* recorded invocations of the activation primitive
MaxCalls == 2

(* Program constants *)

\* dump_ctrs polling interval, Duration::from_secs(1)
IntervalSecs == 1
\* grace period of the timer task, Duration::from_secs(5)
GraceSecs == 5
\* key offset and key length passed to shard_ports
KeyOffset == 0
KeyLength == 4
\* process exit codes: Ok(()) from main, Err from main, panic in main
ExitOk == 0
ExitErr == 1
ExitPanic == 101

NoTime == 0 - 1
Running == 0 - 1

VARIABLES
    ports,            \* opt.ports: the configured ports, in configured order
    worker_blocked,   \* the timer's sleep holds the runtime's last free worker thread
    ctrs,             \* ctrs[i]: request counter of the listener of ports[i]
    gate_pc,          \* "detect" | "send" | "report" | "panicked"
    gate_wake,        \* earliest time the gate's current sleep ends
    sampled_nonzero,  \* some sample of the gate had a nonzero primary counter
    sampled_other,    \* some sample of the gate had a nonzero non-primary counter
    first_done,       \* oneshot channel: "empty" | "sent" | "closed"
    timer_pc,         \* "await" | "grace" | "done" | "panicked"
    timer_wake,       \* earliest time the grace sleep ends
    start_sharding,   \* mpsc channel: queued messages
    tx_alive,         \* start_sharding_tx not yet dropped
    rx_alive,         \* start_sharding_rx not yet dropped
    ctl_pc,           \* "load" | "set_handler" | "while" | "try_recv" | "get_stats" | "returned"
    ctl_err,          \* why main ended: "none" | "stop" | "load" | "handler" | "shard" | "stats" | "index"
    exit_code,        \* Running, or the process exit code
    handler,          \* the ctrlc handler is installed
    stop,             \* the AtomicBool stop flag
    shard_calls,      \* invocations of prog.shard_ports, in order
    sharding,         \* steering state of the kernel: "Disabled" | "Enabled"
    fetched,          \* prog.get_stats has been called at least once
    stats_failed,     \* prog.get_stats has returned an Err
    stats,            \* this iteration's current snapshot (zero outside the body)
    prev,             \* this iteration's previous snapshot
    rxqs,             \* this iteration's diffed map
    reported,         \* the tuples this iteration has logged
    now,              \* the clock
    t_first,          \* time the first-traffic signal was sent
    t_enable          \* time the enable signal was sent

gateVars == <<gate_pc, gate_wake, sampled_nonzero, sampled_other>>
timerVars == <<timer_pc, timer_wake>>
chanVars == <<first_done, start_sharding, tx_alive, rx_alive>>
ctlVars == <<ctl_pc, ctl_err, exit_code, handler>>
shardVars == <<shard_calls, sharding>>
statVars == <<fetched, stats_failed, stats, prev, rxqs, reported>>
timeVars == <<t_first, t_enable>>
lsnVars == <<ctrs>>

vars == <<ports, worker_blocked, ctrs, gate_pc, gate_wake, sampled_nonzero, sampled_other,
          first_done, timer_pc, timer_wake, start_sharding, tx_alive, rx_alive,
          ctl_pc, ctl_err, exit_code, handler, stop, shard_calls, sharding,
          fetched, stats_failed, stats, prev, rxqs, reported, now, t_first,
          t_enable>>

----------------------------------------------------------------------------
(* Configuration *)

\* the port lists given on the command line: for each length up to MaxPorts,
\* one list of distinct ports that is not in ascending order
PortConfigs == {[i \in 1..n |-> MaxPorts + 1 - i] : n \in 0..MaxPorts}

\* keys (rxq, cpu, port) of a stats snapshot; the kernel counts the primary port
StatKeys ==
    IF Len(ports) = 0 THEN {}
    ELSE {<<r, 0, ports[1]>> : r \in 0..MaxRxq}

ZeroStats == [k \in StatKeys |-> 0]

----------------------------------------------------------------------------
(* Initial state: the state of main at shard.rs:98, after the listeners,   *)
(* the gate thread and the timer task have been spawned.                   *)

Init ==
    /\ ports \in PortConfigs
    /\ worker_blocked = FALSE
    /\ ctrs = [i \in 1..Len(ports) |-> 0]
    /\ gate_pc = "detect"
    /\ gate_wake = IntervalSecs
    /\ sampled_nonzero = FALSE
    /\ sampled_other = FALSE
    /\ first_done = "empty"
    /\ timer_pc = "await"
    /\ timer_wake = NoTime
    /\ start_sharding = <<>>
    /\ tx_alive = TRUE
    /\ rx_alive = TRUE
    /\ ctl_pc = "load"
    /\ ctl_err = "none"
    /\ exit_code = Running
    /\ handler = FALSE
    /\ stop = FALSE
    /\ shard_calls = <<>>
    /\ sharding = "Disabled"
    /\ fetched = FALSE
    /\ stats_failed = FALSE
    /\ stats = ZeroStats
    /\ prev = ZeroStats
    /\ rxqs = ZeroStats
    /\ reported = {}
    /\ now = 0
    /\ t_first = NoTime
    /\ t_enable = NoTime

----------------------------------------------------------------------------
(* The clock *)

Tick ==
    /\ now < MaxTime
    /\ now' = now + 1
    /\ UNCHANGED <<ports, worker_blocked, lsnVars, gateVars, timerVars, chanVars, ctlVars,
                   stop, shardVars, statVars, timeVars>>

----------------------------------------------------------------------------
(* Listeners: serve_udp, shard.rs:50-66 *)

\* shard.rs:82: a listener is a task of the runtime of main and is polled
\* only by a worker thread of that runtime that is not held by another task
WorkerFree == ~worker_blocked

\* one loop iteration on a well-formed request: do_ping counts the request.
\* An iteration that fails ends the listener's task (the `?` at shard.rs:58-64),
\* which from then on takes no step: a listener is never obliged to take one.
ServeUdp(i) ==
    /\ WorkerFree
    /\ ctrs[i] < MaxCount
    /\ ctrs' = [ctrs EXCEPT ![i] = @ + 1]
    /\ UNCHANGED <<ports, worker_blocked, gateVars, timerVars, chanVars, ctlVars,
                   stop, shardVars, statVars, now, timeVars>>

Listeners == \E i \in 1..Len(ports) : ServeUdp(i)

----------------------------------------------------------------------------
(* Activation gate: dump_ctrs, shard.rs:18-48 *)

\* shard.rs:25-28: load every counter; `counts` lives for one loop iteration
Sample == [i \in 1..Len(ports) |-> ctrs[i]]

\* shard.rs:30: the exit condition of the detection loop
AnyNonzero(c) == \E i \in DOMAIN c : c[i] > 0
PrimaryNonzero(c) == c[1] > 0

\* shard.rs:24: the end of a sleep that began at time t
SleepTwoIntervals(t) == t + IntervalSecs + IntervalSecs
SleepUntil(t) == t + IntervalSecs

\* shard.rs:23 and 39: both loops of dump_ctrs are unconditional
GateLoopsUntilStop == ~stop
GateLoops == TRUE

\* what a sample adds to the record of the values sampled so far
Sampled(c) ==
    /\ sampled_nonzero' = (sampled_nonzero \/ (Len(c) > 0 /\ c[1] # 0))
    /\ sampled_other' = (sampled_other \/ \E i \in 2..Len(c) : c[i] # 0)

\* shard.rs:20 and 30: a panic in dump_ctrs unwinds and drops first_done; a
\* oneshot sender dropped unused closes the channel, it sends nothing
DroppedSenderSignals == "sent"
DroppedSender == "closed"

\* shard.rs:23-33, one iteration of the detection loop
GateDetect ==
    /\ gate_pc = "detect"
    /\ GateLoops
    /\ now >= gate_wake
    /\ LET counts == Sample IN
       /\ Sampled(counts)
       /\ IF Len(counts) = 0
          THEN \* counts[0] is out of bounds: the thread panics and drops first_done
               /\ gate_pc' = "panicked"
               /\ first_done' = DroppedSender
               /\ UNCHANGED gate_wake
          ELSE /\ UNCHANGED first_done
               /\ IF PrimaryNonzero(counts)
                  THEN /\ gate_pc' = "send"
                       /\ UNCHANGED gate_wake
                  ELSE /\ gate_wake' = SleepUntil(now)
                       /\ UNCHANGED gate_pc
    /\ UNCHANGED <<ports, worker_blocked, lsnVars, timerVars, start_sharding, tx_alive, rx_alive,
                   ctlVars, stop, shardVars, statVars, now, timeVars>>

\* shard.rs:39: after the send the function enters its second loop
BackToDetection == "detect"
AfterSend == "report"

\* shard.rs:37, first_done.send(()).unwrap(); the receiver lives in the timer
\* task for as long as that task awaits it
GateSend ==
    /\ gate_pc = "send"
    /\ IF timer_pc = "await"
       THEN /\ first_done' = "sent"
            /\ t_first' = now
            /\ gate_pc' = AfterSend
            /\ gate_wake' = SleepUntil(now)
       ELSE /\ gate_pc' = "panicked"
            /\ UNCHANGED <<first_done, t_first, gate_wake>>
    /\ UNCHANGED <<ports, worker_blocked, lsnVars, sampled_nonzero, sampled_other, timerVars,
                   start_sharding, tx_alive, rx_alive, ctlVars, stop, shardVars,
                   statVars, now, t_enable>>

\* shard.rs:39-47, one iteration of the reporting loop
GateReport ==
    /\ gate_pc = "report"
    /\ GateLoops
    /\ now >= gate_wake
    /\ Sampled(Sample)
    /\ gate_wake' = SleepUntil(now)
    /\ UNCHANGED <<ports, worker_blocked, lsnVars, gate_pc, timerVars, chanVars, ctlVars, stop,
                   shardVars, statVars, now, timeVars>>

----------------------------------------------------------------------------
(* Quiescence timer: the task spawned at shard.rs:91-96 *)

\* shard.rs:94: the end of the grace sleep that began at time t
NoGrace(t) == t
GraceDeadline(t) == t + GraceSecs

\* shard.rs:93: rx.await is Ok(()) once the gate has sent and Err(RecvError)
\* once the sender is dropped without sending
AwaitAlwaysOk(fd) == TRUE
AwaitOk(fd) == fd = "sent"

\* shard.rs:94: std::thread::sleep inside the spawned task does not yield: the
\* worker thread polling the task is held for the whole grace period.  The
\* runtime of main (shard.rs:68) sizes its pool from the host, so the held
\* worker is the only one on a single-core host and one of several otherwise
SleepBlocksWorker == BOOLEAN

\* shard.rs:93, rx.await.unwrap(): resumes once the gate has sent, panics once
\* the gate has dropped the sender without sending
TimerAwait ==
    /\ timer_pc = "await"
    /\ first_done # "empty"
    /\ IF AwaitOk(first_done)
       THEN /\ timer_pc' = "grace"
            /\ timer_wake' = GraceDeadline(now)
            /\ worker_blocked' \in SleepBlocksWorker
            /\ UNCHANGED tx_alive
       ELSE /\ timer_pc' = "panicked"
            /\ tx_alive' = FALSE
            /\ UNCHANGED <<timer_wake, worker_blocked>>
    /\ UNCHANGED <<ports, lsnVars, gateVars, first_done, start_sharding, rx_alive,
                   ctlVars, stop, shardVars, statVars, now, timeVars>>

\* shard.rs:95: the unwrap of a SendError, returned when the receiver is gone
EnableSendErrIgnored ==
    /\ timer_pc' = "done"
    /\ UNCHANGED <<start_sharding, t_enable>>
EnableSendErr ==
    /\ timer_pc' = "panicked"
    /\ UNCHANGED <<start_sharding, t_enable>>

\* shard.rs:90 and 95: std::sync::mpsc::channel() is unbounded and asynchronous;
\* send queues the message whatever the receiving thread is doing
Rendezvous(q) == IF ctl_pc = "try_recv" THEN Append(q, "enable") ELSE q
Buffered(q) == Append(q, "enable")

\* shard.rs:94-95: the grace sleep ends, start_sharding_tx.send(()).unwrap(),
\* and the task ends, which drops the sender
TimerSend ==
    /\ timer_pc = "grace"
    /\ now >= timer_wake
    /\ tx_alive' = FALSE
    /\ IF rx_alive
       THEN /\ start_sharding' = Buffered(start_sharding)
            /\ t_enable' = now
            /\ timer_pc' = "done"
       ELSE EnableSendErr
    /\ worker_blocked' = FALSE
    /\ UNCHANGED <<ports, lsnVars, gateVars, first_done, timer_wake, rx_alive,
                   ctlVars, stop, shardVars, statVars, now, t_first>>

----------------------------------------------------------------------------
(* Shutdown coordinator: the ctrlc handler, shard.rs:103-106 *)

\* shard.rs:105: s.store(true)
ToggleStop(s) == ~s
StoreStop(s) == TRUE

Interrupt ==
    /\ handler
    /\ stop' = StoreStop(stop)
    /\ UNCHANGED <<ports, worker_blocked, lsnVars, gateVars, timerVars, chanVars, ctlVars,
                   shardVars, statVars, now, timeVars>>

----------------------------------------------------------------------------
(* Sharding controller: main, shard.rs:98-136 *)

\* the exit code of the process for each way main ends: Ok(()) at shard.rs:135,
\* an Err propagated by `?` (shard.rs:98, 115, 119), a panic (shard.rs:107, 115)
AlwaysExitOk(err) == ExitOk
ExitCodeOf(err) ==
    IF err = "stop" THEN ExitOk
    ELSE IF err \in {"handler", "index"} THEN ExitPanic
    ELSE ExitErr

\* main ends: its locals, start_sharding_rx among them, are dropped
ControllerEnd(err) ==
    /\ ctl_pc' = "returned"
    /\ ctl_err' = err
    /\ exit_code' = ExitCodeOf(err)
    /\ rx_alive' = FALSE

\* shard.rs:98, load_on_interface_name(&opt.interface)?
Load ==
    /\ ctl_pc = "load"
    /\ \E ok \in BOOLEAN :
          IF ok
          THEN /\ ctl_pc' = "set_handler"
               /\ UNCHANGED <<ctl_err, exit_code, rx_alive>>
          ELSE ControllerEnd("load")
    /\ UNCHANGED <<ports, worker_blocked, lsnVars, gateVars, timerVars, first_done, start_sharding,
                   tx_alive, handler, stop, shardVars, statVars, now, timeVars>>

\* shard.rs:101-107, ctrlc::set_handler(..).unwrap()
SetHandler ==
    /\ ctl_pc = "set_handler"
    /\ \E ok \in BOOLEAN :
          IF ok
          THEN /\ ctl_pc' = "while"
               /\ handler' = TRUE
               /\ UNCHANGED <<ctl_err, exit_code, rx_alive>>
          ELSE /\ ControllerEnd("handler")
               /\ UNCHANGED handler
    /\ UNCHANGED <<ports, worker_blocked, lsnVars, gateVars, timerVars, first_done, start_sharding,
                   tx_alive, stop, shardVars, statVars, now, timeVars>>

\* shard.rs:133 and 110: the body's locals go out of scope and the loop
\* condition is evaluated; shard.rs:135 when it is false
WhileCheck ==
    /\ ctl_pc = "while"
    /\ IF stop
       THEN ControllerEnd("stop")
       ELSE /\ ctl_pc' = "try_recv"
            /\ UNCHANGED <<ctl_err, exit_code, rx_alive>>
    /\ stats' = ZeroStats
    /\ prev' = ZeroStats
    /\ rxqs' = ZeroStats
    /\ reported' = {}
    /\ UNCHANGED <<ports, worker_blocked, lsnVars, gateVars, timerVars, first_done, start_sharding,
                   tx_alive, handler, stop, shardVars, fetched, stats_failed, now,
                   timeVars>>

\* shard.rs:112: try_recv takes the message it returns out of the channel
KeepQueued(q) == q
Dequeue(q) == Tail(q)

\* shard.rs:115: the arguments of shard_ports
ShardArgsAllPorts(p) ==
    [primary |-> p[1], others |-> p,
     key_offset |-> KeyOffset, key_length |-> KeyLength]
ShardArgs(p) ==
    [primary |-> p[1], others |-> SubSeq(p, 2, Len(p)),
     key_offset |-> KeyOffset, key_length |-> KeyLength]

\* shard.rs:115: the `?` on the result of shard_ports
ShardPortsErrIgnored ==
    /\ ctl_pc' = "get_stats"
    /\ UNCHANGED <<ctl_err, exit_code, rx_alive>>
ShardPortsErr == ControllerEnd("shard")

\* shard.rs:112-117
TryRecv ==
    /\ ctl_pc = "try_recv"
    /\ IF Len(start_sharding) > 0
       THEN /\ start_sharding' = Dequeue(start_sharding)
            /\ IF Len(ports) = 0
               THEN \* opt.ports[0] is out of bounds
                    /\ ControllerEnd("index")
                    /\ UNCHANGED shardVars
               ELSE /\ Len(shard_calls) < MaxCalls
                    /\ \E ok \in BOOLEAN :
                          /\ shard_calls' = Append(shard_calls,
                                [args |-> ShardArgs(ports), at |-> now, ok |-> ok])
                          /\ IF ok
                             THEN /\ sharding' = "Enabled"
                                  /\ ctl_pc' = "get_stats"
                                  /\ UNCHANGED <<ctl_err, exit_code, rx_alive>>
                             ELSE /\ ShardPortsErr
                                  /\ UNCHANGED sharding
       ELSE \* Err(Empty) or Err(Disconnected): no signal
            /\ ctl_pc' = "get_stats"
            /\ UNCHANGED <<start_sharding, ctl_err, exit_code, rx_alive, shardVars>>
    /\ UNCHANGED <<ports, worker_blocked, lsnVars, gateVars, timerVars, first_done, tx_alive,
                   handler, stop, statVars, now, timeVars>>

\* the pairs (current, previous) get_stats can return: two snapshots of the
\* same cumulative counters, the previous one taken first
Snapshots ==
    {p \in [StatKeys -> 0..MaxStat] \X [StatKeys -> 0..MaxStat] :
        \A k \in StatKeys : p[1][k] >= p[2][k]}

\* xdp_shard::diff_maps: elementwise current - previous
DiffMaps(cur, old) == [k \in StatKeys |-> cur[k] - old[k]]

\* shard.rs:127: the entries that are logged
NonNegative(count) == count >= 0
Reportable(count) == count > 0

\* shard.rs:124-132: the tuples (rxq, cpu, port, count) logged for a diffed map
Report(m) == {<<k[1], k[2], k[3], m[k]>> : k \in {x \in DOMAIN m : Reportable(m[x])}}

\* shard.rs:119: the `?` on the result of get_stats
GetStatsErrIgnored ==
    /\ ctl_pc' = "while"
    /\ UNCHANGED <<ctl_err, exit_code, rx_alive>>
GetStatsErr == ControllerEnd("stats")

\* shard.rs:133: the end of the loop body leads back to the loop condition
SkipCheck == "try_recv"
LoopBack == "while"

\* shard.rs:119-132
GetStats ==
    /\ ctl_pc = "get_stats"
    /\ fetched' = TRUE
    /\ \/ \E p \in Snapshots :
             /\ stats' = p[1]
             /\ prev' = p[2]
             /\ rxqs' = DiffMaps(p[1], p[2])
             /\ reported' = Report(rxqs')
             /\ ctl_pc' = LoopBack
             /\ UNCHANGED <<ctl_err, exit_code, rx_alive, stats_failed>>
       \/ /\ stats_failed' = TRUE
          /\ GetStatsErr
          /\ UNCHANGED <<stats, prev, rxqs, reported>>
    /\ UNCHANGED <<ports, worker_blocked, lsnVars, gateVars, timerVars, first_done, start_sharding,
                   tx_alive, handler, stop, shardVars, now, timeVars>>

----------------------------------------------------------------------------

Next ==
    \/ Tick
    \/ Listeners
    \/ GateDetect
    \/ GateSend
    \/ GateReport
    \/ TimerAwait
    \/ TimerSend
    \/ Interrupt
    \/ Load
    \/ SetHandler
    \/ WhileCheck
    \/ TryRecv
    \/ GetStats

Spec == Init /\ [][Next]_vars

\* Scheduling: the gate is an OS thread, the timer a runtime task and the
\* controller the main thread; each of them is eventually run when it can take
\* a step, and time passes.  The listeners' traffic and the interrupt are the
\* environment's and get no fairness.
FairSpec ==
    /\ Spec
    /\ WF_vars(Tick)
    /\ WF_vars(GateDetect) /\ WF_vars(GateSend) /\ WF_vars(GateReport)
    /\ WF_vars(TimerAwait) /\ WF_vars(TimerSend)
    /\ WF_vars(Load) /\ WF_vars(SetHandler)
    /\ WF_vars(WhileCheck) /\ WF_vars(TryRecv) /\ WF_vars(GetStats)

----------------------------------------------------------------------------
(* Properties *)

\* C1: the gate sends the first-traffic signal if and only if some sampled
\* value of the primary counter (the first entry of the port list) is nonzero.
\* The signal is never sent while every sampled primary value is zero; once a
\* primary sample is nonzero the gate has left the detection loop, and the only
\* state between that sample and the signal is the pending send, which the
\* waiting timer makes succeed. Non-primary samples play no part.
C1_SignalIffPrimarySampleNonzero ==
    /\ first_done = "sent" => sampled_nonzero
    /\ sampled_nonzero => gate_pc \in {"send", "report"}
    /\ gate_pc = "send" => first_done = "empty" /\ timer_pc = "await"
    /\ gate_pc = "report" => first_done = "sent"
    /\ gate_pc \in {"detect", "panicked"} => first_done # "sent"

\* the signal has been sent on a primary sample while every other counter is silent
C1_Witness ==
    /\ first_done = "sent"
    /\ sampled_nonzero
    /\ Len(ports) > 1
    /\ \A i \in 2..Len(ports) : ctrs[i] = 0

\* a non-primary counter was sampled nonzero and the gate is still detecting
C1_WitnessOtherIgnored ==
    /\ gate_pc = "detect"
    /\ sampled_other
    /\ first_done = "empty"
    /\ now > IntervalSecs

C3_NoActivationBeforeGrace ==
    /\ t_enable # NoTime => t_first # NoTime /\ t_enable >= t_first + 5
    /\ Len(start_sharding) > 0 => t_enable # NoTime
    /\ \A i \in DOMAIN shard_calls :
          t_enable # NoTime /\ shard_calls[i].at >= t_enable
    /\ timer_pc \in {"await", "grace"} => shard_calls = <<>> /\ start_sharding = <<>>

\* an activation at the earliest possible time
C3_Witness ==
    /\ Len(shard_calls) = 1
    /\ shard_calls[1].at = t_first + 5

C5_StopObservedAtLoopBoundary ==
    [][ /\ stop => stop'
        /\ (stop /\ ctl_pc = "while" /\ ctl_pc' # "while")
              => (ctl_pc' = "returned" /\ exit_code' = 0)
        /\ (stop /\ ctl_pc = "try_recv" /\ ctl_pc' # "try_recv")
              => (ctl_pc' = "get_stats" \/ (ctl_pc' = "returned" /\ ctl_err' \in {"shard", "index"}))
        /\ (stop /\ ctl_pc = "get_stats" /\ ctl_pc' # "get_stats")
              => (ctl_pc' = "while" \/ (ctl_pc' = "returned" /\ ctl_err' = "stats"))
        /\ (ctl_pc = "while" /\ stop) => ENABLED WhileCheck
      ]_vars

\* the interrupt arrived in the middle of an iteration and the process has
\* exited 0 while the gate is still polling and the timer still in its grace sleep
C5_Witness ==
    /\ exit_code = 0
    /\ fetched
    /\ gate_pc = "report"
    /\ timer_pc = "grace"

\* C6: the process ends with exit code 0 only if the stop flag was set by an
\* interrupt; every other end of main (load failure, handler installation
\* failure, activation failure, stats fetch failure) is a nonzero exit.
C6_ExitZeroOnlyOnStop ==
    /\ (ctl_pc = "returned") = (exit_code # Running)
    /\ exit_code = 0 => stop /\ ctl_err = "stop"
    /\ (ctl_pc = "returned" /\ ctl_err # "stop") => exit_code > 0
    /\ ctl_pc = "returned" => ctl_err \in {"stop", "load", "handler", "shard", "stats", "index"}

\* main has ended on an activation failure, with no interrupt
C6_Witness ==
    /\ ctl_pc = "returned"
    /\ ctl_err = "shard"
    /\ exit_code = 1
    /\ ~stop

\* C7: a failed stats fetch ends the controller at once with a nonzero exit:
\* the iteration reports no delta, and main, once ended, takes no further
\* step (no retry, no further iteration), with or without sharding active.
C7_StatsFailureIsFatal ==
    [][ /\ stats_failed' =>
              /\ ctl_pc' = "returned"
              /\ ctl_err' = "stats"
              /\ exit_code' > 0
              /\ reported' = {}
        /\ ctl_pc = "returned" =>
              UNCHANGED <<ctlVars, shardVars, statVars, start_sharding>>
      ]_vars

\* a stats fetch failed after sharding was activated
C7_Witness ==
    /\ stats_failed
    /\ sharding = "Enabled"
    /\ exit_code = 1

\* C8: the tuples an iteration reports are exactly the entries of its pair of
\* snapshots whose delta current - previous is strictly positive, whether
\* sharding is enabled or not.
C8_ReportsExactlyPositiveDeltas ==
    /\ reported = {<<k[1], k[2], k[3], stats[k] - prev[k]>> :
                      k \in {x \in StatKeys : stats[x] - prev[x] > 0}}
    /\ \A t \in reported : t[4] > 0
    /\ reported # {} => fetched

\* an iteration with sharding enabled has reported a positive delta
C8_Witness ==
    /\ sharding = "Enabled"
    /\ ctl_pc = "while"
    /\ reported # {}
    /\ \E k \in StatKeys : stats[k] > prev[k] /\ prev[k] >= 0

\* an iteration has fetched a pair of equal snapshots and reported nothing
C8_WitnessZeroDelta ==
    /\ ctl_pc = "while"
    /\ fetched
    /\ reported = {}
    /\ \E k \in StatKeys : stats[k] = MaxStat /\ prev[k] = MaxStat

\* C9: a failed activation ends the controller with a nonzero exit and is the
\* only activation attempt: the enable signal that triggered it is consumed,
\* the channel holds no other and its sender is gone.
C9_ActivationFailureNotRetried ==
    (\E i \in DOMAIN shard_calls : ~shard_calls[i].ok) =>
        /\ Len(shard_calls) = 1
        /\ ctl_pc = "returned"
        /\ ctl_err = "shard"
        /\ exit_code > 0
        /\ sharding = "Disabled"
        /\ start_sharding = <<>>
        /\ ~tx_alive

\* the activation primitive has failed
C9_Witness ==
    /\ Len(shard_calls) = 1
    /\ ~shard_calls[1].ok
    /\ exit_code = 1

\* C10 as stated: a clean exit is always preceded by at least one stats fetch
C10_CleanExitFollowsFetch ==
    exit_code = 0 => fetched

\* C10, amended: an iteration runs (1) the stop-flag check, which is the loop
\* condition, (2) the non-blocking enable check with activation, (3) the stats
\* fetch, diff and report. The loop exits cleanly only at the stop-flag check,
\* which is reached from the installation of the handler or from a successful
\* stats fetch: a clean exit follows a stats fetch unless the flag was set
\* before the first check, and then no iteration has run at all.
C10_LoopOrder ==
    [][ /\ (ctl_pc = "while" /\ ctl_pc' # "while")
              => \/ ctl_pc' = "try_recv" /\ ~stop
                 \/ ctl_pc' = "returned" /\ stop /\ exit_code' = 0
        /\ (ctl_pc = "try_recv" /\ ctl_pc' # "try_recv")
              => \/ ctl_pc' = "get_stats"
                 \/ ctl_pc' = "returned" /\ exit_code' > 0
        /\ (ctl_pc = "get_stats" /\ ctl_pc' # "get_stats")
              => /\ fetched'
                 /\ \/ ctl_pc' = "while"
                    \/ ctl_pc' = "returned" /\ exit_code' > 0
        /\ (ctl_pc' = "while" /\ ctl_pc # "while")
              => \/ ctl_pc = "set_handler" /\ ~fetched
                 \/ ctl_pc = "get_stats"
        /\ (exit_code' = 0 /\ exit_code # 0 /\ ~fetched)
              => shard_calls = <<>> /\ reported = {}
      ]_vars

\* the process has exited 0 without a single stats fetch
C10_Witness ==
    /\ exit_code = 0
    /\ ~fetched
    /\ ctl_pc = "returned"

\* C11: the gate emits the first-traffic signal exactly when it passes from
\* the detection phase to the reporting phase, and never again: the step that
\* sends is the step that enters the reporting phase, a gate that has left the
\* detection loop on a nonzero sample does nothing else before it sends, and a
\* gate in the reporting phase stays there whatever it samples, with the signal
\* and its time of emission unchanged.
C11_SignalOnceThenReportForever ==
    [][ /\ (first_done' = "sent" /\ first_done # "sent")
              => (gate_pc = "send" /\ gate_pc' = "report")
        /\ (gate_pc' = "report" /\ gate_pc # "report")
              => (gate_pc = "send" /\ first_done = "empty" /\ first_done' = "sent")
        /\ gate_pc = "send" => gate_pc' \in {"send", "report"}
        /\ gate_pc = "report"
              => /\ gate_pc' = "report"
                 /\ first_done' = "sent"
                 /\ t_first' = t_first
        /\ t_first # NoTime => t_first' = t_first
      ]_vars

\* the gate has gone through a reporting iteration after the signal and
\* after the counters have moved on
C11_Witness ==
    /\ gate_pc = "report"
    /\ first_done = "sent"
    /\ gate_wake > t_first + IntervalSecs
    /\ \A i \in 1..Len(ports) : ctrs[i] = MaxCount

\* C12: an iteration of the controller loop sleeps for the interval, so two
\* consecutive stats fetches are separated by a sleep of the controller: when
\* the controller is about to fetch stats again after a first fetch, at least
\* one interval has passed since the loop began.
C12_FetchesSeparatedBySleep ==
    (fetched /\ ctl_pc = "get_stats") => now >= IntervalSecs

\* C13: when the sender of the first-traffic channel is dropped without a
\* signal, the timer fails at its await: it never starts the grace period and
\* never emits the enable signal, and the activation primitive is never invoked.
C13_AbandonedSignalStopsTimer ==
    [][ /\ first_done = "closed"
              => /\ timer_pc \in {"await", "panicked"}
                 /\ timer_wake = NoTime
                 /\ t_enable = NoTime
                 /\ start_sharding = <<>>
                 /\ shard_calls = <<>>
                 /\ sharding = "Disabled"
                 /\ first_done' = "closed"
        /\ (first_done = "closed" /\ timer_pc = "await" /\ timer_pc' # "await")
              => (timer_pc' = "panicked" /\ ~tx_alive')
        /\ (first_done = "closed" /\ timer_pc = "panicked")
              => (timer_pc' = "panicked" /\ ~tx_alive /\ ~tx_alive')
      ]_vars

\* the timer has failed on the abandoned channel while the controller runs
C13_Witness ==
    /\ first_done = "closed"
    /\ gate_pc = "panicked"
    /\ timer_pc = "panicked"
    /\ fetched
    /\ ctl_pc = "try_recv"

C15_StopFlagTouchesNothingElse ==
    /\ [][stop' # stop =>
             UNCHANGED <<ports, lsnVars, gateVars, timerVars, chanVars, ctlVars,
                         shardVars, statVars, now, timeVars>>]_vars
    /\ [](/\ (gate_pc = "detect" /\ now >= gate_wake) => ENABLED GateDetect
          /\ gate_pc = "send" => ENABLED GateSend
          /\ (gate_pc = "report" /\ now >= gate_wake) => ENABLED GateReport
          /\ (timer_pc = "await" /\ first_done # "empty") => ENABLED TimerAwait
          /\ (timer_pc = "grace" /\ now >= timer_wake) => ENABLED TimerSend)

\* the flag is set, main has not ended yet, and the gate is due for a sample
\* while the timer is in its grace sleep
C15_Witness ==
    /\ stop
    /\ exit_code = Running
    /\ gate_pc = "report"
    /\ now >= gate_wake
    /\ timer_pc = "grace"

\* C16: the gate and the timer are never run on a worker of the I/O runtime,
\* so while the grace period runs every listener that has a datagram to count
\* can be scheduled, whatever the number of runtime workers.
C16_ListenersSchedulableDuringGrace ==
    timer_pc = "grace" =>
        \A i \in 1..Len(ports) : ctrs[i] < MaxCount => ENABLED ServeUdp(i)

\* C17: first-traffic detection is stale by at most one polling interval.
\* While the gate is detecting, its next sample is due no later than one
\* interval from now; counters never decrease, so an increment of the primary
\* counter stays visible; the first sample taken while the primary counter is
\* nonzero ends the detection loop; and the signal is then emitted without
\* another sample in between.  (The clock of the model gives a sleep its
\* minimum length only: "due" is the earliest time the sample can be taken.)
C17_DetectionWithinOneInterval ==
    /\ [](gate_pc = "detect" => gate_wake <= now + IntervalSecs)
    /\ [][ /\ \A i \in 1..Len(ports) : ctrs'[i] >= ctrs[i]
           /\ (gate_pc = "detect" /\ Len(ports) > 0 /\ ctrs[1] > 0) =>
                  \/ gate_pc' = "send" /\ sampled_nonzero'
                  \/ UNCHANGED gateVars
           /\ (gate_pc = "detect" /\ gate_pc' = "send") => ctrs[1] > 0
           /\ gate_pc = "send" =>
                  /\ UNCHANGED <<sampled_nonzero, sampled_other>>
                  /\ gate_pc' \in {"send", "report", "panicked"}
                  /\ gate_pc' = "report" => (first_done' = "sent" /\ t_first' = now)
         ]_vars
C17_Witness ==
    /\ gate_pc = "report"
    /\ first_done = "sent"
    /\ t_first = IntervalSecs + IntervalSecs
    /\ sampled_nonzero /\ ~sampled_other
    /\ Len(ports) = MaxPorts

\* C18: liveness of the activation chain under fair scheduling.  A nonzero
\* primary counter seen by the detecting gate leads to the first-traffic
\* signal; the signal leads to the enable signal unless the controller has
\* ended; the enable signal leads to the one activation call unless the
\* controller has ended.  The enable signal is buffered: from its emission to
\* its consumption it sits in the channel, whatever the controller is doing.
\* No second call is ever made.  (gate_wake > MaxTime and timer_wake > MaxTime
\* are the sleeps that end beyond the explored time horizon.)
C18_ActivationChainLive ==
    /\ (Len(ports) > 0 /\ ctrs[1] > 0 /\ gate_pc = "detect")
          ~> (first_done = "sent" \/ gate_wake > MaxTime)
    /\ (first_done = "sent")
          ~> (t_enable # NoTime \/ timer_wake > MaxTime \/ ctl_pc = "returned")
    /\ (t_enable # NoTime)
          ~> (Len(shard_calls) = 1 \/ ctl_pc = "returned")
    /\ [](Len(shard_calls) <= 1)
    /\ []((t_enable # NoTime /\ shard_calls = <<>> /\ ctl_pc # "returned")
            => start_sharding = <<"enable">>)
C18_Witness ==
    /\ Len(shard_calls) = 1
    /\ shard_calls[1].ok
    /\ shard_calls[1].at >= t_enable
    /\ t_enable = t_first + GraceSecs
    /\ ctl_err = "none" /\ ~stop
    /\ sharding = "Enabled"
C18_WitnessBuffered ==
    /\ start_sharding = <<"enable">>
    /\ ctl_pc = "get_stats"
    /\ t_enable = now
    /\ exit_code = Running

\* C19: with no port configured, the gate fails on its first sample and sends
\* no first-traffic signal; the timer then fails and sends no enable signal;
\* the controller reads the empty or closed enable channel as "no signal" and
\* goes on to fetch stats: no activation call is made, opt.ports[0] is never
\* evaluated in the controller, and the loop is left only on a set StopFlag
\* or on a failed fetch.
C19_EmptyPortList ==
    /\ [](Len(ports) = 0 =>
            /\ gate_pc \in {"detect", "panicked"}
            /\ gate_pc = "detect" => (gate_wake = IntervalSecs /\ first_done = "empty")
            /\ gate_pc = "panicked" => first_done = "closed"
            /\ ~sampled_nonzero /\ t_first = NoTime
            /\ timer_pc \in {"await", "panicked"}
            /\ timer_pc = "panicked" => (first_done = "closed" /\ ~tx_alive)
            /\ t_enable = NoTime /\ start_sharding = <<>>
            /\ shard_calls = <<>> /\ sharding = "Disabled"
            /\ ctl_err \in {"none", "load", "handler", "stop", "stats"}
            /\ ctl_err = "stop" => stop)
    /\ [][Len(ports) = 0 =>
            /\ (gate_pc = "detect" /\ gate_pc' # "detect") => first_done' = "closed"
            /\ (timer_pc = "await" /\ timer_pc' # "await") => gate_pc = "panicked"
            /\ ctl_pc = "try_recv" => ctl_pc' \in {"try_recv", "get_stats"}
            /\ (ctl_pc = "while" /\ ctl_pc' = "returned") => stop
            /\ (ctl_pc = "get_stats" /\ ctl_pc' = "returned") => ctl_err' = "stats"
       ]_vars
C19_Witness ==
    /\ Len(ports) = 0
    /\ gate_pc = "panicked" /\ timer_pc = "panicked" /\ ~tx_alive
    /\ ctl_pc = "get_stats" /\ fetched
    /\ ~stop /\ exit_code = Running
    /\ now > IntervalSecs

====
